---- MODULE Spec2Model ----
(***************************************************************************)
(* Model of the Teleop session of quirky_binder_console (src/src/main.rs): *)
(* the future started by use_future in Teleop (lines 183-207), the poll    *)
(* function (lines 308-485) with its update_graph closure, the spawned     *)
(* task that drives the RPC system (lines 192-196), and the cancellation   *)
(* of both when the component is unmounted.                                *)
(*                                                                         *)
(* One action is one run of the future between two suspension points       *)
(* (.await): everything the code does synchronously after a response has   *)
(* arrived is part of the action that delivers the response.               *)
(***************************************************************************)
EXTENDS Integers, Sequences, FiniteSets, TLC

\* ------------------------------------------------------------------ bounds

\* Longest "statuses" list a node_statuses response carries.
MaxStatuses == 2
\* Most node_statuses requests of one session.
MaxCycles == 2
\* Granularity of the clock, in milliseconds.
TickMs == 1000
\* The number of bits that stands for the 32 bits of i32 and of the wire
\* counters: TLC's own integers are 32 bits wide, so the width is scaled down
\* and every threshold of the code (10, 42) still lies inside the range.
I32Bits == 8

\* ------------------------------------------------------- program constants

\* Duration::from_millis(3000), main.rs:476
POLL_DELAY_MS == 3000

GREY == "#59636e"
GREEN == "#1a7f37"
ORANGE == "#dbab0a"
RED == "#d1242f"

\* ------------------------------------------------------------ wire values

\* Node names the remote process may use.
Names == {"A", "B"}

\* node_state::Which as node_status.get_state()?.which()? yields it;
\* "NotInSchema" is a discriminant the schema does not know (which() is Err).
States == {"Waiting", "Running", "Success", "Error"}
WireStates == States \cup {"NotInSchema"}

\* Counter lists of a node status record (input_read, output_written).
CounterLists == {<<>>, <<1>>}

\* One element of the "statuses" list of a node_statuses response.
NodeStatus == [node_name : Names, state : WireStates,
               input_read : CounterLists, output_written : CounterLists]

\* The "statuses" lists a response may carry.
StatusLists == UNION {[1..n -> NodeStatus] : n \in 0..MaxStatuses}

\* The node lists a "graph" response may carry.
NodeLists == {<<>>, <<"A">>, <<"A", "B">>}

\* The edge lists a "graph" response may carry: none, or one edge from port 0
\* of A to port 0 of B.
EdgeLists == {<<>>,
              <<[tail_name |-> "A", tail_index |-> 0,
                 head_name |-> "B", head_index |-> 0]>>}

\* The graphs a "graph" response may carry.
Graphs == [nodes : NodeLists, edges : EdgeLists]

\* Option<T>: None, or Some(x) with the value x = Unwrap(Some(x)).
None == <<>>
Some(x) == <<x>>
Unwrap(option) == option[1]
\* No step has failed, nobody has cancelled.
Nothing == "nothing"

\* ------------------------------------------------------------------ state

VARIABLES
    rpc_state,      \* the rpc_state signal: Connecting, Connected, Disconnected
    pc,             \* where the use_future task is suspended, or how it ended
    transport,      \* the stream of connect(): none, open, released
    rpc_system,     \* the spawned task awaiting rpc_system: none, running, ended, failed, dropped
    connection,     \* the RPC connection of client_connection: none, up, down
    graph,          \* the topology held by poll, None before the response
    statuses,       \* the BTreeMap of the current (or last) call of update_graph
    dot,            \* the dot text that call gave to dot_to_svg
    finished,       \* the finished flag of that call
    svg,            \* the svg signal: None or the image displayed
    timer,          \* milliseconds left of Timer::after, None when no timer is armed
    \* history, read by the properties only
    service_requests,        \* "state" service requests sent
    graph_requests,          \* graph requests sent
    node_statuses_requests,  \* node_statuses requests sent
    dot_to_svg_calls,        \* dot_to_svg calls made
    svg_sets,                \* svg.set calls made
    failure,                 \* the step whose failure ended poll, Nothing otherwise
    cancelled_at             \* pc at the moment the task was cancelled, Nothing otherwise

vars == <<rpc_state, pc, transport, rpc_system, connection, graph, statuses, dot,
          finished, svg, timer, service_requests, graph_requests, node_statuses_requests,
          dot_to_svg_calls, svg_sets, failure, cancelled_at>>

counters == <<service_requests, graph_requests, node_statuses_requests,
              dot_to_svg_calls, svg_sets>>

\* The task spawned for the RPC system and what it owns.
rpc_task == <<rpc_system, connection, transport>>

\* What a call of update_graph computes.
cycle == <<statuses, dot, finished>>

\* ---------------------------------------------------------- pure functions

\* pub fn node_name_to_dot_id: the raw name between double quotes.
node_name_to_dot_id(name) == "\"" \o name \o "\""

\* BTreeMap::insert as collect() applies it: a later entry of a name replaces
\* the earlier one.
BTreeMapInsert(map, key, value) ==
    [k \in DOMAIN map \cup {key} |-> IF k = key THEN value ELSE map[k]]

\* statuses.into_iter().map(|s| (name, s)).collect::<BTreeMap<&str, _>>()
RECURSIVE CollectFrom(_, _, _)
CollectFrom(list, i, map) ==
    IF i > Len(list) THEN map
    ELSE CollectFrom(list, i + 1, BTreeMapInsert(map, list[i].node_name, list[i]))

Collect(list) == CollectFrom(list, 1, <<>>)

\* .iter().fold(None, |acc, n| acc.map_or(Some(n), |acc| Some(acc + n)))
RECURSIVE FoldFrom(_, _, _)
FoldFrom(list, i, acc) ==
    IF i > Len(list) THEN acc
    ELSE FoldFrom(list, i + 1,
                  IF acc = None THEN Some(list[i]) ELSE Some(Unwrap(acc) + list[i]))

Fold(list) == FoldFrom(list, 1, None)

\* read_records.map_or(written_records, |read| Some(read + written_records.unwrap_or(0)))
total_records(node_status) ==
    LET read_records == Fold(node_status.input_read)
        written_records == Fold(node_status.output_written)
    IN  IF read_records = None THEN written_records
        ELSE Some(Unwrap(read_records)
                  + (IF written_records = None THEN 0 ELSE Unwrap(written_records)))

\* Mutant of NodeColor: a Running node is amber whatever its counters.
NodeColorRunningAmber(node_status) ==
    CASE node_status.state = "Waiting" -> GREY
      [] node_status.state = "Running" -> ORANGE
      [] node_status.state = "Success" -> GREEN
      [] node_status.state = "Error" -> RED

\* The match on the node state that chooses the colour attribute.
NodeColor(node_status) ==
    CASE node_status.state = "Waiting" -> GREY
      [] node_status.state = "Running" ->
            IF total_records(node_status) = None THEN GREY ELSE ORANGE
      [] node_status.state = "Success" -> GREEN
      [] node_status.state = "Error" -> RED

\* Mutant of NodeFinished: only Waiting clears the flag, Running counts as done.
NodeFinishedRunningDone(flag, node_status) ==
    IF node_status.state = "Waiting" THEN FALSE ELSE flag

\* Mutant of NodeFinished: an Error node ends the run, whatever came before.
NodeFinishedErrorEnds(flag, node_status) ==
    IF node_status.state = "Error" THEN TRUE
    ELSE IF node_status.state \in {"Waiting", "Running"} THEN FALSE ELSE flag

\* The same match, as it updates the finished flag.
NodeFinished(flag, node_status) ==
    IF node_status.state \in {"Waiting", "Running"} THEN FALSE ELSE flag

\* The theme signal: set to Corporate in App and never written afterwards.
theme == "Corporate"

\* The lines written before the node loop.
DotHeader ==
    <<"digraph G {", "    graph [bgcolor=\"transparent\"];">>
    \o (IF theme \in {"Light", "Corporate"}
        THEN <<"    node [fontcolor=\"black\", color=\"black\"];",
               "    edge [fontcolor=\"black\", color=\"black\"];">>
        ELSE <<"    node [fontcolor=\"white\", color=\"white\"];",
               "    edge [fontcolor=\"white\", color=\"white\"];">>)

\* The lines of one node declaration.
NodeLines(node_name, node_status) ==
    <<node_name_to_dot_id(node_name) \o " [",
      "color = \"" \o NodeColor(node_status) \o "\"",
      "]">>

\* for node in nodes { ... }: statuses[node_name] panics when the map has no
\* such key, which()? returns Err for an unknown discriminant; otherwise the
\* node's lines are appended and the finished flag is updated.
RECURSIVE NodeLoop(_, _, _, _, _)
NodeLoop(nodes, i, map, flag, lines) ==
    IF i > Len(nodes) THEN [kind |-> "Ok", finished |-> flag, dot |-> lines]
    ELSE IF nodes[i] \notin DOMAIN map
         THEN [kind |-> "Panic", finished |-> flag, dot |-> lines]
    ELSE IF map[nodes[i]].state = "NotInSchema"
         THEN [kind |-> "Err", finished |-> flag, dot |-> lines]
    ELSE NodeLoop(nodes, i + 1, map,
                  NodeFinished(flag, map[nodes[i]]),
                  lines \o NodeLines(nodes[i], map[nodes[i]]))

\* list.get(index) of a capnp list: Some(element), or "Panic" when the index
\* is not below the length (get asserts it).
ListGet(list, index) ==
    IF index < Len(list) THEN Some(list[index + 1]) ELSE "Panic"

\* Mutant of Counter: the entry is taken by indexing (statuses[name]), which
\* panics without an entry of that name.
CounterByIndexing(map, name, field, index) ==
    IF name \notin DOMAIN map THEN "Panic"
    ELSE ListGet(IF field = "output_written" THEN map[name].output_written
                 ELSE map[name].input_read, index)

\* statuses.get(name).map(|s| Ok(counters(s)?.get(index))).transpose()?:
\* None without an entry of that name, else the counter of that port.
Counter(map, name, field, index) ==
    IF name \notin DOMAIN map THEN None
    ELSE ListGet(IF field = "output_written" THEN map[name].output_written
                 ELSE map[name].input_read, index)

\* The values of i32: -2^31 .. 2^31 - 1 at the scaled width.
I32Min == -(2 ^ (I32Bits - 1))
I32Max == 2 ^ (I32Bits - 1) - 1

\* `n as i32`: the low bits of n read as a two's complement number.
as_i32(n) ==
    LET low == n % (2 ^ I32Bits)
    IN  IF low > I32Max THEN low - 2 ^ I32Bits ELSE low

\* `t as i32 - h as i32` leaves the range of i32: a build with overflow checks
\* panics there, a build without them wraps.
SubOverflows(t, h) ==
    LET d == as_i32(t) - as_i32(h) IN d < I32Min \/ d > I32Max

\* tail_counter.and_then(|t| head_counter.map(|h| t as i32 - h as i32)), the
\* subtraction wrapping.
diff_counter(tail_counter, head_counter) ==
    IF tail_counter = None \/ head_counter = None THEN None
    ELSE Some(as_i32(as_i32(Unwrap(tail_counter)) - as_i32(Unwrap(head_counter))))

\* The colour chosen from the difference.
EdgeColor(d) == IF d < 10 THEN GREEN ELSE IF d < 42 THEN ORANGE ELSE RED

\* The (attr, val) pairs of an edge: taillabel, headlabel, color, each only
\* when its Option is Some.
EdgeAttrs(tail_counter, head_counter) ==
    LET d == diff_counter(tail_counter, head_counter) IN
    (IF tail_counter = None THEN <<>>
     ELSE <<<<"taillabel", ToString(Unwrap(tail_counter))>>>>)
    \o (IF head_counter = None THEN <<>>
        ELSE <<<<"headlabel",
                 IF d # None
                 THEN ToString(Unwrap(head_counter)) \o " (" \o ToString(Unwrap(d)) \o ")"
                 ELSE ToString(Unwrap(head_counter))>>>>)
    \o (IF d = None THEN <<>> ELSE <<<<"color", EdgeColor(Unwrap(d))>>>>)

\* The lines of one edge declaration: the first attribute starts a new line,
\* the others follow a ", "; without attributes the brackets close at once.
EdgeLines(edge, attrs) ==
    LET open == node_name_to_dot_id(edge.tail_name) \o " -> "
                \o node_name_to_dot_id(edge.head_name) \o " ["
    IN  IF attrs = <<>> THEN <<open \o "]">>
        ELSE <<open>>
             \o [i \in 1..Len(attrs) |->
                   (IF i > 1 THEN ", " ELSE "")
                   \o attrs[i][1] \o " = \"" \o attrs[i][2] \o "\""]
             \o <<"]">>

\* for edge in edges { ... }: a port index outside a counter list panics,
\* otherwise the edge's lines are appended.
RECURSIVE EdgeLoop(_, _, _, _)
EdgeLoop(edges, i, map, lines) ==
    IF i > Len(edges) THEN [kind |-> "Ok", dot |-> lines]
    ELSE LET tail_counter == Counter(map, edges[i].tail_name, "output_written",
                                     edges[i].tail_index)
             head_counter == Counter(map, edges[i].head_name, "input_read",
                                     edges[i].head_index)
         IN  IF tail_counter = "Panic" \/ head_counter = "Panic"
             THEN [kind |-> "Panic", dot |-> lines]
             ELSE EdgeLoop(edges, i + 1, map,
                           lines \o EdgeLines(edges[i],
                                              EdgeAttrs(tail_counter, head_counter)))

\* update_graph from the collected map up to the call of dot_to_svg.
BuildDot(topology, map) ==
    LET n == NodeLoop(topology.nodes, 1, map, TRUE, DotHeader)
        e == EdgeLoop(topology.edges, 1, map, n.dot)
    IN  IF n.kind # "Ok" THEN n
        ELSE [kind |-> e.kind, finished |-> n.finished, dot |-> e.dot \o <<"}">>]

\* Some edge of the list has both counters and their subtraction overflows.
Overflows(edges, map) ==
    \E i \in DOMAIN edges :
        LET tail_counter == Counter(map, edges[i].tail_name, "output_written",
                                    edges[i].tail_index)
            head_counter == Counter(map, edges[i].head_name, "input_read",
                                    edges[i].head_index)
        IN  /\ tail_counter # None /\ tail_counter # "Panic"
            /\ head_counter # None /\ head_counter # "Panic"
            /\ SubOverflows(Unwrap(tail_counter), Unwrap(head_counter))

\* The outcomes of update_graph up to the call of dot_to_svg in the builds of
\* the program: where a subtraction overflows, the build with overflow checks
\* panics and the other one goes on with the wrapped difference.
BuildDotOutcomes(topology, map) ==
    UNION {IF r.kind = "Ok" /\ Overflows(topology.edges, map)
           THEN {r, [r EXCEPT !.kind = "Panic"]}
           ELSE {r} : r \in {BuildDot(topology, map)}}

\* The String dot_to_svg returns for a dot text when the dot command succeeds.
Svg(dot_source) == <<"svg", dot_source>>

\* ------------------------------------------------------------------ steps

\* The suspension points of the use_future task.
Suspended == {"connect", "client_connection", "service_request", "graph_request",
              "node_statuses_request", "dot_to_svg", "timer", "rpc_disconnector"}

Init ==
    /\ rpc_state = "Connecting"
    /\ pc = "connect"
    /\ transport = "none"
    /\ rpc_system = "none"
    /\ connection = "none"
    /\ graph = None
    /\ statuses = None
    /\ dot = None
    /\ finished = None
    /\ svg = None
    /\ timer = None
    /\ service_requests = 0
    /\ graph_requests = 0
    /\ node_statuses_requests = 0
    /\ dot_to_svg_calls = 0
    /\ svg_sets = 0
    /\ failure = Nothing
    /\ cancelled_at = Nothing

\* Mutant of PollErr: the error leaves the future too (poll(..).await?), so the
\* disconnect and rpc_state.set(Disconnected) are skipped.
PollErrReturns(step) ==
    /\ failure' = step
    /\ pc' = "returned_err"

\* An Err leaves poll through `?`: Teleop prints it and awaits rpc_disconnector.
PollErr(step) ==
    /\ failure' = step
    /\ pc' = "rpc_disconnector"

\* update_graph() is called, with fresh locals: the node_statuses request is sent.
SendNodeStatuses ==
    /\ node_statuses_requests < MaxCycles
    /\ statuses' = None
    /\ dot' = None
    /\ finished' = None
    /\ node_statuses_requests' = node_statuses_requests + 1
    /\ pc' = "node_statuses_request"

\* Mutant of ConnectOk: rpc_state.set(Connected) is missing.
ConnectOkNoState ==
    /\ pc = "connect"
    /\ transport' = "open"
    /\ pc' = "client_connection"
    /\ UNCHANGED <<rpc_state, rpc_system, connection, graph, cycle, svg, timer,
                   counters, failure, cancelled_at>>

\* connect::<DefaultAttacher>(pid).await is Ok: rpc_state.set(Connected).
ConnectOk ==
    /\ pc = "connect"
    /\ transport' = "open"
    /\ rpc_state' = "Connected"
    /\ pc' = "client_connection"
    /\ UNCHANGED <<rpc_system, connection, graph, cycle, svg, timer, counters,
                   failure, cancelled_at>>

\* connect(pid).await? is Err: the future returns the error at once.
ConnectErr ==
    /\ pc = "connect"
    /\ pc' = "returned_err"
    /\ UNCHANGED <<rpc_state, rpc_task, graph, cycle, svg, timer, counters,
                   failure, cancelled_at>>

\* client_connection(input, output).await returns; the task awaiting rpc_system
\* is spawned and poll sends the "state" service request.
ClientConnection ==
    /\ pc = "client_connection"
    /\ rpc_system' = "running"
    /\ connection' = "up"
    /\ service_requests' = service_requests + 1
    /\ pc' = "service_request"
    /\ UNCHANGED <<rpc_state, transport, graph, cycle, svg, timer,
                   graph_requests, node_statuses_requests, dot_to_svg_calls, svg_sets,
                   failure, cancelled_at>>

\* The service response arrives and decodes: the graph request is sent.
ServiceOk ==
    /\ pc = "service_request"
    /\ connection = "up"
    /\ graph_requests' = graph_requests + 1
    /\ pc' = "graph_request"
    /\ UNCHANGED <<rpc_state, rpc_task, graph, cycle, svg, timer,
                   service_requests, node_statuses_requests, dot_to_svg_calls,
                   svg_sets, failure, cancelled_at>>

\* The service request fails, or state.get()? or get_as()? is Err.
ServiceErr ==
    /\ pc = "service_request"
    /\ PollErr("service")
    /\ UNCHANGED <<rpc_state, rpc_task, graph, cycle, svg, timer, counters,
                   cancelled_at>>

\* The graph response arrives and decodes; the loop calls update_graph.
GraphOk ==
    /\ pc = "graph_request"
    /\ connection = "up"
    /\ \E topology \in Graphs : graph' = Some(topology)
    /\ SendNodeStatuses
    /\ UNCHANGED <<rpc_state, rpc_task, svg, timer, service_requests,
                   graph_requests, dot_to_svg_calls, svg_sets, failure,
                   cancelled_at>>

\* The graph request fails, or graph.get()?.get_graph()? is Err.
GraphErr ==
    /\ pc = "graph_request"
    /\ PollErr("graph")
    /\ UNCHANGED <<rpc_state, rpc_task, graph, cycle, svg, timer, counters,
                   cancelled_at>>

\* The node_statuses response arrives with its list, which is collected into
\* the map; the dot text is built and dot_to_svg is called, unless a node's
\* state does not decode (Err), or a node has no entry in the map, an edge
\* names a port outside a counter list or a checked subtraction overflows
\* (panic).
StatusesResponse(list) ==
    /\ \E map \in {Collect(list)} :
       \E r \in BuildDotOutcomes(Unwrap(graph), map) :
        /\ statuses' = Some(map)
        /\ \/ /\ r.kind = "Ok"
              /\ dot' = Some(r.dot)
              /\ finished' = Some(r.finished)
              /\ dot_to_svg_calls' = dot_to_svg_calls + 1
              /\ pc' = "dot_to_svg"
              /\ UNCHANGED failure
           \/ /\ r.kind = "Err"
              /\ PollErr("decode")
              /\ UNCHANGED <<dot, finished, dot_to_svg_calls>>
           \/ /\ r.kind = "Panic"
              /\ pc' = "panicked"
              /\ UNCHANGED <<dot, finished, dot_to_svg_calls, failure>>
    /\ UNCHANGED <<rpc_state, rpc_task, graph, svg, timer, service_requests,
                   graph_requests, node_statuses_requests, svg_sets, cancelled_at>>

\* The response of the session specification: one of its status lists.
StatusesOk ==
    /\ pc = "node_statuses_request"
    /\ connection = "up"
    /\ \E list \in StatusLists : StatusesResponse(list)

\* The node_statuses request fails, or the response, a node name or the node
\* list of the graph does not decode.
StatusesErr ==
    /\ pc = "node_statuses_request"
    /\ PollErr("node_statuses")
    /\ UNCHANGED <<rpc_state, rpc_task, graph, cycle, svg, timer, counters,
                   cancelled_at>>

\* Mutant of DotToSvgOk: the timer is armed whatever the finished flag says.
DotToSvgOkAlwaysSleeps ==
    /\ pc = "dot_to_svg"
    /\ svg' = Some(Svg(Unwrap(dot)))
    /\ svg_sets' = svg_sets + 1
    /\ timer' = Some(POLL_DELAY_MS)
    /\ pc' = "timer"
    /\ UNCHANGED <<rpc_state, rpc_task, graph, cycle, service_requests,
                   graph_requests, node_statuses_requests, dot_to_svg_calls,
                   failure, cancelled_at>>

\* Mutant of DotToSvgOk: the loop decides first and a finished cycle leaves
\* without svg.set.
DotToSvgOkDecidesFirst ==
    /\ pc = "dot_to_svg"
    /\ IF ~Unwrap(finished)
       THEN /\ svg' = Some(Svg(Unwrap(dot)))
            /\ svg_sets' = svg_sets + 1
            /\ timer' = Some(POLL_DELAY_MS)
            /\ pc' = "timer"
       ELSE /\ UNCHANGED <<svg, svg_sets, timer>>
            /\ pc' = "rpc_disconnector"
    /\ UNCHANGED <<rpc_state, rpc_task, graph, cycle, service_requests,
                   graph_requests, node_statuses_requests, dot_to_svg_calls, failure, cancelled_at>>

\* dot_to_svg(&dot).await is Ok: svg.set, then the timer or the end of the loop.
DotToSvgOk ==
    /\ pc = "dot_to_svg"
    /\ svg' = Some(Svg(Unwrap(dot)))
    /\ svg_sets' = svg_sets + 1
    /\ IF ~Unwrap(finished)
       THEN /\ timer' = Some(POLL_DELAY_MS)
            /\ pc' = "timer"
       ELSE /\ timer' = timer
            /\ pc' = "rpc_disconnector"
    /\ UNCHANGED <<rpc_state, rpc_task, graph, cycle, service_requests,
                   graph_requests, node_statuses_requests, dot_to_svg_calls, failure, cancelled_at>>

\* Mutant of DotToSvgErr: the image is cleared when the renderer fails.
DotToSvgErrClearsSvg ==
    /\ pc = "dot_to_svg"
    /\ PollErr("dot_to_svg")
    /\ svg' = None
    /\ UNCHANGED <<rpc_state, rpc_task, graph, cycle, timer, counters, cancelled_at>>

\* dot_to_svg(&dot).await? is Err: spawn, write or a non-zero exit of dot.
DotToSvgErr ==
    /\ pc = "dot_to_svg"
    /\ PollErr("dot_to_svg")
    /\ UNCHANGED <<rpc_state, rpc_task, graph, cycle, svg, timer, counters,
                   cancelled_at>>

\* Time passes while the timer is armed.
Tick ==
    /\ timer # None
    /\ Unwrap(timer) > 0
    /\ timer' = Some(IF Unwrap(timer) > TickMs THEN Unwrap(timer) - TickMs ELSE 0)
    /\ UNCHANGED <<rpc_state, pc, rpc_task, graph, cycle, svg, counters, failure, cancelled_at>>

\* Mutant of TimerFired: the timer is not awaited, the loop goes on at once.
TimerFiredEarly ==
    /\ pc = "timer"
    /\ timer' = None
    /\ SendNodeStatuses
    /\ UNCHANGED <<rpc_state, rpc_task, graph, svg, service_requests,
                   graph_requests, dot_to_svg_calls, svg_sets, failure, cancelled_at>>

\* Mutant of TimerFired: the graph request is part of the cycle and is sent again.
TimerFiredRefetchesGraph ==
    /\ pc = "timer"
    /\ timer = Some(0)
    /\ timer' = None
    /\ graph_requests' = graph_requests + 1
    /\ pc' = "graph_request"
    /\ UNCHANGED <<rpc_state, rpc_task, graph, cycle, svg, service_requests,
                   node_statuses_requests, dot_to_svg_calls, svg_sets, failure,
                   cancelled_at>>

\* Timer::after(3000 ms).await completes: update_graph returns Ok(false) and
\* the while loop calls it again.
TimerFired ==
    /\ pc = "timer"
    /\ timer = Some(0)
    /\ timer' = None
    /\ SendNodeStatuses
    /\ UNCHANGED <<rpc_state, rpc_task, graph, svg, service_requests,
                   graph_requests, dot_to_svg_calls, svg_sets, failure, cancelled_at>>

\* Mutant of Disconnect: rpc_state.set(Disconnected) without awaiting the
\* disconnector, so the connection is left as it was.
DisconnectWithoutAwait ==
    /\ pc = "rpc_disconnector"
    /\ rpc_state' = "Disconnected"
    /\ pc' = "done"
    /\ UNCHANGED <<rpc_task, graph, cycle, svg, timer, counters, failure,
                   cancelled_at>>

\* rpc_disconnector.await completes (its result is dropped):
\* rpc_state.set(Disconnected) and the future returns Ok(()).
Disconnect ==
    /\ pc = "rpc_disconnector"
    /\ connection' = "down"
    /\ rpc_state' = "Disconnected"
    /\ pc' = "done"
    /\ UNCHANGED <<transport, rpc_system, graph, cycle, svg, timer, counters,
                   failure, cancelled_at>>

\* The spawned task: rpc_system.await returns Ok after the disconnect; the task
\* ends and drops the RPC system with both halves of the stream.
RpcSystemOk ==
    /\ rpc_system = "running"
    /\ connection = "down"
    /\ rpc_system' = "ended"
    /\ transport' = "released"
    /\ UNCHANGED <<rpc_state, pc, connection, graph, cycle, svg, timer, counters,
                   failure, cancelled_at>>

\* Mutant of RpcSystemErr: the task ends with its error while the connection
\* goes on delivering responses.
RpcSystemErrKeepsConnection ==
    /\ rpc_system = "running"
    /\ connection = "up"
    /\ rpc_system' = "failed"
    /\ UNCHANGED <<rpc_state, pc, connection, transport, graph, cycle, svg, timer,
                   counters, failure, cancelled_at>>

\* The spawned task: rpc_system.await returns Err ("Connection interrupted").
RpcSystemErr ==
    /\ rpc_system = "running"
    /\ connection = "up"
    /\ rpc_system' = "failed"
    /\ connection' = "down"
    /\ transport' = "released"
    /\ UNCHANGED <<rpc_state, pc, graph, cycle, svg, timer, counters, failure, cancelled_at>>

\* Mutant of Cancel: the RPC task outlives the component (spawn_forever), so
\* only the use_future task is dropped.
CancelKeepsRpcTask ==
    /\ pc \in Suspended
    /\ pc' = "cancelled"
    /\ cancelled_at' = pc
    /\ timer' = None
    /\ UNCHANGED <<rpc_state, rpc_task, graph, cycle, svg, counters, failure>>

\* The Teleop component is unmounted: its scope drops the use_future task at
\* its suspension point and the spawned task, with everything they own.
Cancel ==
    /\ pc \in Suspended \/ rpc_system = "running"
    /\ pc' = IF pc \in Suspended THEN "cancelled" ELSE pc
    /\ cancelled_at' = IF pc \in Suspended THEN pc ELSE cancelled_at
    /\ timer' = None
    /\ rpc_system' = IF rpc_system = "running" THEN "dropped" ELSE rpc_system
    /\ connection' = IF connection = "up" THEN "down" ELSE connection
    /\ transport' = IF transport = "open" THEN "released" ELSE transport
    /\ UNCHANGED <<rpc_state, graph, cycle, svg, counters, failure>>

\* The steps of the session when nobody cancels it.
Run ==
    \/ ConnectOk
    \/ ConnectErr
    \/ ClientConnection
    \/ ServiceOk
    \/ ServiceErr
    \/ GraphOk
    \/ GraphErr
    \/ StatusesOk
    \/ StatusesErr
    \/ DotToSvgOk
    \/ DotToSvgErr
    \/ Tick
    \/ TimerFired
    \/ Disconnect
    \/ RpcSystemOk
    \/ RpcSystemErr

Next == Run \/ Cancel

Spec == Init /\ [][Next]_vars

\* The session under a fair scheduler and without cancellation: a pending
\* rpc_disconnector.await is polled until it completes.
FairSpec == Init /\ [][Run]_vars /\ WF_vars(Disconnect)

\* An RPC wait of poll on a connection that is down ends with an error.
RpcWaitFails ==
    /\ connection = "down"
    /\ ServiceErr \/ GraphErr \/ StatusesErr

\* The session without cancellation when, besides the disconnect, time
\* passes, the dot process ends, and an RPC wait on a connection that is down
\* ends (the RPC system, which alone could deliver a response, is gone).
RpcFairSpec ==
    /\ Init /\ [][Run]_vars
    /\ WF_vars(Disconnect)
    /\ WF_vars(RpcWaitFails)
    /\ WF_vars(DotToSvgOk \/ DotToSvgErr)
    /\ WF_vars(Tick)
    /\ WF_vars(TimerFired)

\* ------------------------------------------------------------- rendering
\* One cycle of update_graph over topologies and snapshots with large
\* counters and with a node name that holds double quotes.

\* A node name with two double quotes in it.
QuoteName == "A\" -> \"B"

\* Counter values of the wire: around the thresholds, around 2^31 and the
\* largest value of 32 bits (at the scaled width).
WireCounters == {0, 1, 9, 10, 41, 42, 50, 80, 100,
                 I32Max, I32Max + 1, I32Max + 2, 2 ^ I32Bits - 1}

TailEntries == [node_name : {"A"}, state : {"Running", "Success", "NotInSchema"},
                input_read : {<<>>},
                output_written : {<<t>> : t \in WireCounters}]

HeadEntries == [node_name : {"B"}, state : {"Success"},
                input_read : {<<h>> : h \in WireCounters},
                output_written : {<<>>}]

QuoteEntry == [node_name |-> QuoteName, state |-> "Success",
               input_read |-> <<>>, output_written |-> <<1>>]

RenderStatusLists ==
    {<<>>, <<QuoteEntry>>}
    \cup {<<a>> : a \in TailEntries}
    \cup {<<b>> : b \in HeadEntries}
    \cup {<<a, b>> : a \in TailEntries, b \in HeadEntries}
    \cup {<<QuoteEntry, b>> : b \in HeadEntries}

RenderGraphs ==
    [nodes : {<<>>, <<"A", "B">>, <<QuoteName>>},
     edges : {<<>>} \cup
             {<<[tail_name |-> n, tail_index |-> 0,
                 head_name |-> "B", head_index |-> 0]>> : n \in {"A", QuoteName}}]

\* The session after the graph response, the first node_statuses request sent.
RenderInit ==
    /\ rpc_state = "Connected"
    /\ pc = "node_statuses_request"
    /\ transport = "open"
    /\ rpc_system = "running"
    /\ connection = "up"
    /\ graph \in {Some(topology) : topology \in RenderGraphs}
    /\ statuses = None
    /\ dot = None
    /\ finished = None
    /\ svg = None
    /\ timer = None
    /\ service_requests = 1
    /\ graph_requests = 1
    /\ node_statuses_requests = 1
    /\ dot_to_svg_calls = 0
    /\ svg_sets = 0
    /\ failure = Nothing
    /\ cancelled_at = Nothing

\* The response of the rendering specification: one of its status lists.
Render ==
    /\ pc = "node_statuses_request"
    /\ connection = "up"
    /\ \E list \in RenderStatusLists : StatusesResponse(list)

RenderNext == Render \/ DotToSvgOk \/ DotToSvgErr

RenderSpec == RenderInit /\ [][RenderNext]_vars

\* ----------------------------------------------------------------- claims

Terminal == {"Success", "Error"}

\* Every node of the topology has a terminal state in the map.
AllTerminal(nodes, map) ==
    \A i \in DOMAIN nodes : nodes[i] \in DOMAIN map /\ map[nodes[i]].state \in Terminal

\* Some node of the topology has no entry in the map.
MissingEntry(nodes, map) == \E i \in DOMAIN nodes : nodes[i] \notin DOMAIN map

\* C1 as stated: the finished flag of a cycle is true iff every entry of the
\* cycle's snapshot is Success or Error.
C1_FinishedIffEveryEntryTerminal ==
    finished # None =>
        (Unwrap(finished) <=>
            \A n \in DOMAIN Unwrap(statuses) : Unwrap(statuses)[n].state \in Terminal)

\* C1 as amended: the finished flag of a cycle is true iff the entry of every
\* node of the topology is Success or Error; entries of other names do not count.
C1_FinishedIffEveryTopologyNodeTerminal ==
    finished # None =>
        (Unwrap(finished) <=> AllTerminal(Unwrap(graph).nodes, Unwrap(statuses)))

\* C1 witness: a finished cycle whose snapshot holds a Running entry of a name
\* outside the topology.
C1_Witness ==
    /\ pc = "dot_to_svg"
    /\ finished = Some(TRUE)
    /\ Unwrap(graph).nodes = <<"A">>
    /\ "B" \in DOMAIN Unwrap(statuses)
    /\ Unwrap(statuses)["B"].state = "Running"

\* C2: once a step of poll has failed the loop has stopped: no request, no
\* render and no image follows, the future only awaits the disconnect, and
\* the reported state becomes Disconnected.
C2_FailureEndsSession ==
    /\ [][failure # Nothing =>
            /\ counters' = counters
            /\ svg' = svg
            /\ failure' = failure
            /\ pc' \in {"rpc_disconnector", "done"}]_vars
    /\ [][failure = Nothing /\ failure' # Nothing =>
            /\ counters' = counters
            /\ pc' = "rpc_disconnector"]_vars
    /\ [](failure # Nothing /\ pc = "done" => rpc_state = "Disconnected")
    /\ (failure # Nothing ~> rpc_state = "Disconnected")

\* C2 witness: the renderer failed in the second cycle and the session is
\* Disconnected.
C2_Witness ==
    /\ failure = "dot_to_svg"
    /\ node_statuses_requests = 2
    /\ rpc_state = "Disconnected"

\* C3: a cycle that is not finished arms the 3000 ms timer and the next
\* node_statuses request is sent only when the whole delay has elapsed; a
\* finished cycle leaves the loop at once, arms no timer and is followed by
\* no node_statuses request.
C3_DelayBetweenCycles ==
    /\ [][svg_sets' # svg_sets =>
            IF Unwrap(finished)
            THEN pc' = "rpc_disconnector" /\ timer' = None
            ELSE pc' = "timer" /\ timer' = Some(POLL_DELAY_MS)]_vars
    /\ [][node_statuses_requests' # node_statuses_requests /\ node_statuses_requests > 0 =>
            /\ pc = "timer"
            /\ timer = Some(0)
            /\ finished = Some(FALSE)]_vars
    /\ [][finished = Some(TRUE) =>
            node_statuses_requests' = node_statuses_requests]_vars

\* C3 witness: the second request has been sent, after the delay.
C3_Witness ==
    /\ pc = "node_statuses_request"
    /\ node_statuses_requests = 2
    /\ svg_sets = 1

\* A snapshot with every topology node in Success or Error has been fetched
\* and rendered.
RenderedAllTerminal ==
    /\ dot # None
    /\ pc # "dot_to_svg"
    /\ failure = Nothing
    /\ AllTerminal(Unwrap(graph).nodes, Unwrap(statuses))

\* C4: without cancellation and under a fair scheduler, once a snapshot with
\* every topology node in Success or Error has been rendered the session
\* eventually reports Disconnected.
C4_FinishedLeadsToDisconnected == RenderedAllTerminal ~> rpc_state = "Disconnected"

\* C4 witness: the session is Disconnected after such a cycle.
C4_Witness ==
    /\ RenderedAllTerminal
    /\ Unwrap(graph).nodes = <<"A", "B">>
    /\ rpc_state = "Disconnected"
    /\ pc = "done"

\* C5 as stated: when the transport connect fails the reported state ends as
\* Disconnected.
C5_ConnectFailureReportsDisconnected ==
    pc = "returned_err" => rpc_state = "Disconnected"

\* C6 as stated: a snapshot without an entry for a topology node ends the
\* cycle as a failure returned by poll, and the session goes on to Disconnected.
C6_MissingEntryIsFetchFailure ==
    (statuses # None /\ MissingEntry(Unwrap(graph).nodes, Unwrap(statuses))) =>
        /\ failure # Nothing
        /\ pc \in {"rpc_disconnector", "done", "cancelled"}

\* C7: the image changes only at the end of a cycle whose fetch, decoding and
\* rendering succeeded, and then to the rendering of that cycle's dot text; a
\* step that fails or panics leaves the image as it was.
C7_ImageOnlyFromSuccessfulCycle ==
    /\ [][svg' # svg \/ svg_sets' # svg_sets =>
            /\ pc = "dot_to_svg"
            /\ statuses # None
            /\ ~MissingEntry(Unwrap(graph).nodes, Unwrap(statuses))
            /\ \A i \in DOMAIN Unwrap(graph).nodes :
                   Unwrap(statuses)[Unwrap(graph).nodes[i]].state \in States
            /\ svg' = Some(Svg(Unwrap(dot)))
            /\ svg_sets' = svg_sets + 1
            /\ failure' = Nothing]_vars
    /\ [][failure' # failure \/ pc' = "panicked" => svg' = svg]_vars

\* C7 witness: the second cycle failed in the renderer and the image of the
\* first cycle is still displayed.
C7_Witness ==
    /\ failure = "dot_to_svg"
    /\ svg_sets = 1
    /\ svg # None
    /\ svg # Some(Svg(Unwrap(dot)))

\* C8: after a cancellation during the inter-cycle delay the transport is
\* released and no node_statuses request is sent any more.
C8_CancelInDelayReleasesTransport ==
    /\ [](cancelled_at = "timer" => transport = "released" /\ pc = "cancelled")
    /\ [][cancelled_at = "timer" => counters' = counters]_vars

\* C8 witness: the task was cancelled in the delay while the transport was
\* still open, and the transport is released.
C8_Witness ==
    /\ cancelled_at = "timer"
    /\ rpc_system = "dropped"
    /\ transport = "released"

\* C9: rpc_state only steps from Connecting to Connected (at the successful
\* connect) and from Connected to Disconnected (after the disconnect); it is
\* Connected all the time poll runs, and once Disconnected nothing changes it
\* and no request is sent.
C9_StateMovesForward ==
    /\ [][rpc_state' # rpc_state =>
            \/ rpc_state = "Connecting" /\ rpc_state' = "Connected" /\ pc = "connect"
            \/ /\ rpc_state = "Connected" /\ rpc_state' = "Disconnected"
               /\ pc = "rpc_disconnector"]_vars
    /\ [](pc \in {"client_connection", "service_request", "graph_request",
                  "node_statuses_request", "dot_to_svg", "timer", "rpc_disconnector"}
            => rpc_state = "Connected")
    /\ [][rpc_state = "Disconnected" =>
            rpc_state' = "Disconnected" /\ counters' = counters /\ pc' = pc]_vars

\* C9 witness: a session that polled and rendered is Disconnected.
C9_Witness == rpc_state = "Disconnected" /\ svg_sets > 0

\* C10: the graph request is sent once, before the first node_statuses
\* request, and the topology never changes afterwards; a node_statuses request
\* is sent once per cycle, only when every earlier cycle has rendered, and the
\* dot text of a cycle is built from the map of that cycle's own response.
C10_OneGraphOneSnapshotPerCycle ==
    /\ [](graph_requests <= 1)
    /\ [](node_statuses_requests > 0 => graph_requests = 1 /\ graph # None)
    /\ [][graph # None => graph' = graph]_vars
    /\ [][graph_requests' # graph_requests => node_statuses_requests = 0]_vars
    /\ [][node_statuses_requests' # node_statuses_requests =>
            /\ node_statuses_requests' = node_statuses_requests + 1
            /\ svg_sets = node_statuses_requests
            /\ statuses' = None /\ dot' = None]_vars
    /\ [](dot_to_svg_calls <= node_statuses_requests)
    /\ [](dot # None =>
            /\ statuses # None
            /\ dot = Some(BuildDot(Unwrap(graph), Unwrap(statuses)).dot))

\* C10 witness: the second cycle renders with one graph request sent.
C10_Witness ==
    /\ pc = "dot_to_svg"
    /\ node_statuses_requests = 2
    /\ dot_to_svg_calls = 2
    /\ graph_requests = 1

\* C11: a session that reports Disconnected has its RPC connection shut down:
\* the state is set to Disconnected only by the step that completes the
\* disconnect, which leaves the connection down, after a finished cycle as
\* well as after a failed step.
C11_DisconnectedAfterShutdown ==
    /\ [](rpc_state = "Disconnected" => connection = "down")
    /\ [][rpc_state' = "Disconnected" /\ rpc_state # "Disconnected" =>
            /\ pc = "rpc_disconnector"
            /\ connection' = "down"
            /\ \/ failure # Nothing
               \/ finished = Some(TRUE) /\ svg = Some(Svg(Unwrap(dot)))]_vars

\* C11 witness: a step failed while the connection was up and the RPC system
\* running; the disconnect shut the connection and the state is Disconnected.
C11_Witness ==
    /\ failure # Nothing
    /\ rpc_state = "Disconnected"
    /\ rpc_system = "running"
    /\ connection = "down"

Colours == {GREY, GREEN, ORANGE, RED}

\* The lines of a dot text that follow the node declarations of the topology:
\* the edge declarations and the closing brace.
EdgePart(topology, lines) ==
    SubSeq(lines, Len(DotHeader) + 3 * Len(topology.nodes) + 1, Len(lines))

\* The attribute attr = "val" is a line of the text, as first or as later
\* attribute of its declaration.
Emits(lines, attr, val) ==
    \E i \in DOMAIN lines :
        \/ lines[i] = attr \o " = \"" \o val \o "\""
        \/ lines[i] = ", " \o attr \o " = \"" \o val \o "\""

\* The text of a label: a counter, or a counter and a difference, exact or
\* converted.
Labels ==
    {ToString(n) : n \in WireCounters}
    \cup {ToString(h) \o " (" \o ToString(t - h) \o ")" : t, h \in WireCounters}
    \cup {ToString(h) \o " (" \o ToString(Unwrap(diff_counter(Some(t), Some(h)))) \o ")" :
             t, h \in WireCounters}

\* The element of a counter list at a port, if the list reaches the port.
AtPort(list, index) == IF index < Len(list) THEN Some(list[index + 1]) ELSE None

\* The counters of the first edge of the topology in the snapshot: the tail
\* node's output_written and the head node's input_read at the edge's ports.
TailCounter ==
    LET edge == Unwrap(graph).edges[1]
    IN  IF edge.tail_name \notin DOMAIN Unwrap(statuses) THEN None
        ELSE AtPort(Unwrap(statuses)[edge.tail_name].output_written, edge.tail_index)
HeadCounter ==
    LET edge == Unwrap(graph).edges[1]
    IN  IF edge.head_name \notin DOMAIN Unwrap(statuses) THEN None
        ELSE AtPort(Unwrap(statuses)[edge.head_name].input_read, edge.head_index)

\* A cycle has built the dot text of a topology with an edge.
EdgeRendered == dot # None /\ Unwrap(graph).edges # <<>>

\* The colour of the thresholds for a difference d.
ThresholdColour(d) == IF d < 10 THEN GREEN ELSE IF d < 42 THEN ORANGE ELSE RED

\* C12 as stated: the edge's colour is emitted iff both counters are
\* available, and with d = tail - head it is green when d < 10, amber when
\* 10 <= d < 42 and red when d >= 42.
C12_EdgeColourByDifference ==
    EdgeRendered =>
        LET lines == EdgePart(Unwrap(graph), Unwrap(dot))
            both == TailCounter # None /\ HeadCounter # None
        IN  /\ (\E c \in Colours : Emits(lines, "color", c)) <=> both
            /\ both =>
                 \A c \in Colours :
                     Emits(lines, "color", c) <=>
                         c = ThresholdColour(Unwrap(TailCounter) - Unwrap(HeadCounter))

\* C14 as stated: taillabel is emitted exactly when the tail counter is
\* present and shows it; headlabel is emitted exactly when the head counter is
\* present and shows it, followed by the difference tail - head in
\* parentheses exactly when both counters are present.
C14_EdgeLabels ==
    EdgeRendered =>
        LET lines == EdgePart(Unwrap(graph), Unwrap(dot))
        IN  /\ \A l \in Labels :
                   Emits(lines, "taillabel", l) <=>
                       TailCounter # None /\ l = ToString(Unwrap(TailCounter))
            /\ \A l \in Labels :
                   Emits(lines, "headlabel", l) <=>
                       /\ HeadCounter # None
                       /\ l = IF TailCounter # None
                              THEN ToString(Unwrap(HeadCounter)) \o " ("
                                   \o ToString(Unwrap(TailCounter) - Unwrap(HeadCounter))
                                   \o ")"
                              ELSE ToString(Unwrap(HeadCounter))

\* C17 as stated: for every pair of counters of the wire, counters of 2^31
\* and above included, the difference shown in headlabel and the colour chosen
\* are those of the mathematical difference tail - head, and the cycle renders.
C17_DifferenceIsMathematical ==
    /\ EdgeRendered /\ TailCounter # None /\ HeadCounter # None =>
        LET lines == EdgePart(Unwrap(graph), Unwrap(dot))
            d == Unwrap(TailCounter) - Unwrap(HeadCounter)
        IN  /\ Emits(lines, "headlabel",
                     ToString(Unwrap(HeadCounter)) \o " (" \o ToString(d) \o ")")
            /\ Emits(lines, "color", ThresholdColour(d))
    /\ pc = "panicked" =>
        \/ MissingEntry(Unwrap(graph).nodes, Unwrap(statuses))
        \/ ~Overflows(Unwrap(graph).edges, Unwrap(statuses))

\* The colour C13 gives to a node status.
StatedNodeColour(node_status) ==
    CASE node_status.state = "Waiting" -> GREY
      [] node_status.state = "Success" -> GREEN
      [] node_status.state = "Error" -> RED
      [] node_status.state = "Running" ->
            IF node_status.input_read = <<>> /\ node_status.output_written = <<>>
            THEN GREY ELSE ORANGE

\* C13: in every dot text built, the colour line of each node is grey for
\* Waiting, green for Success, red for Error whatever the counters, and for
\* Running grey without any counter on any port and amber with at least one.
C13_NodeColourByState ==
    dot # None =>
        \A i \in DOMAIN Unwrap(graph).nodes :
            Unwrap(dot)[Len(DotHeader) + 3 * (i - 1) + 2] =
                "color = \""
                \o StatedNodeColour(Unwrap(statuses)[Unwrap(graph).nodes[i]])
                \o "\""

\* C13 witness: a rendered cycle with a Running node without counters and a
\* Running node with one counter.
C13_Witness ==
    /\ dot # None
    /\ Unwrap(graph).nodes = <<"A", "B">>
    /\ Unwrap(statuses)["A"] = [node_name |-> "A", state |-> "Running",
                                input_read |-> <<>>, output_written |-> <<>>]
    /\ Unwrap(statuses)["B"] = [node_name |-> "B", state |-> "Running",
                                input_read |-> <<1>>, output_written |-> <<>>]

\* The names a topology uses: its nodes and the endpoints of its edges.
NamesOf(topology) ==
    {topology.nodes[i] : i \in DOMAIN topology.nodes}
    \cup {topology.edges[i].tail_name : i \in DOMAIN topology.edges}
    \cup {topology.edges[i].head_name : i \in DOMAIN topology.edges}

\* C15 as stated: a cycle over a topology in which a node name or an edge
\* endpoint name holds a double quote fails: no dot text is handed to the
\* renderer and no image is emitted.
C15_QuoteInNameFailsCycle ==
    (statuses # None /\ QuoteName \in NamesOf(Unwrap(graph))) =>
        /\ dot = None
        /\ dot_to_svg_calls = 0
        /\ svg = None
        /\ pc \in {"rpc_disconnector", "panicked"}

RpcWaits == {"service_request", "graph_request", "node_statuses_request"}

\* The polling task is at a suspension point of poll.
Polling == pc \in RpcWaits \cup {"dot_to_svg", "timer"}

\* The delay of the last cycle the model's bound allows.
CycleBound == pc = "timer" /\ node_statuses_requests = MaxCycles

\* C16: the task that awaits the RPC system can fail at any suspension point
\* of poll without moving the polling task; once it has failed no RPC wait of
\* poll ends with a response (no topology, no snapshot is received any more),
\* and the session goes on to Disconnected.
C16_RpcSystemFailureEndsSession ==
    /\ [][rpc_system = "running" /\ rpc_system' = "failed" =>
            pc' = pc /\ rpc_state' = rpc_state /\ connection' = "down"]_vars
    /\ [][rpc_system = "failed" =>
            /\ rpc_system' = "failed"
            /\ graph' = graph
            /\ statuses' \in {statuses, None}
            /\ (pc \in RpcWaits /\ pc' # pc =>
                    pc' = "rpc_disconnector" /\ failure' # Nothing)]_vars
    /\ ((rpc_system = "failed" /\ Polling) ~>
            (rpc_state = "Disconnected" \/ CycleBound))

\* C16 witness: the RPC system failed after the first cycle had rendered, the
\* second node_statuses request failed and the session is Disconnected.
C16_Witness ==
    /\ rpc_system = "failed"
    /\ svg_sets = 1
    /\ node_statuses_requests = 2
    /\ failure = "node_statuses"
    /\ rpc_state = "Disconnected"

\* The snapshot of the current cycle was rendered and holds a Waiting or
\* Running node of the topology.
RenderedUnfinished ==
    /\ dot # None
    /\ failure = Nothing
    /\ ~AllTerminal(Unwrap(graph).nodes, Unwrap(statuses))

\* C18: without cancellation, the state becomes Disconnected only after a
\* failed step or after a rendered cycle whose snapshot has every topology
\* node in Success or Error; a rendered cycle with a Waiting or Running
\* topology node keeps the session Connected, in the renderer or in the
\* delay, which nothing but the next node_statuses request ends, and below
\* the bound of the model that request always follows.
C18_LoopEndsOnlyFinishedOrFailed ==
    /\ [][rpc_state' = "Disconnected" /\ rpc_state # "Disconnected" =>
            \/ failure # Nothing
            \/ /\ dot # None
               /\ svg = Some(Svg(Unwrap(dot)))
               /\ AllTerminal(Unwrap(graph).nodes, Unwrap(statuses))]_vars
    /\ [](RenderedUnfinished =>
            pc \in {"dot_to_svg", "timer"} /\ rpc_state = "Connected")
    /\ [][pc = "timer" /\ pc' # pc =>
            /\ pc' = "node_statuses_request"
            /\ node_statuses_requests' = node_statuses_requests + 1
            /\ failure' = Nothing]_vars
    /\ ((pc = "timer" /\ ~CycleBound) ~> pc = "node_statuses_request")

\* C18 witness: the second cycle rendered an Error node followed by a Waiting
\* node and the session waits, Connected, for the next cycle.
C18_Witness ==
    /\ pc = "timer"
    /\ node_statuses_requests = 2
    /\ svg_sets = 2
    /\ rpc_state = "Connected"
    /\ Unwrap(graph).nodes = <<"A", "B">>
    /\ Unwrap(statuses)["A"].state = "Error"
    /\ Unwrap(statuses)["B"].state = "Waiting"

\* The loop has ended by Ok(true) and no step has failed.
CleanCompletion == pc \in {"rpc_disconnector", "done"} /\ failure = Nothing

\* C19: every cycle whose rendering succeeds sets the image once, to the
\* rendering of that cycle's dot text, before the next snapshot is requested
\* (image k is the image of snapshot k); the image is set before the cycle's
\* decision takes effect, so when the loop ends by clean completion the image
\* of the final snapshot, with every topology node terminal, is displayed
\* when the state becomes Disconnected and stays the displayed one.
C19_ImageBeforeDecision ==
    /\ [][pc = "dot_to_svg" /\ pc' \in {"timer", "rpc_disconnector"} /\ failure' = Nothing =>
            /\ svg_sets' = svg_sets + 1
            /\ svg_sets' = node_statuses_requests
            /\ svg' = Some(Svg(Unwrap(dot)))]_vars
    /\ [][svg_sets' # svg_sets => pc = "dot_to_svg" /\ svg_sets' = svg_sets + 1]_vars
    /\ [][node_statuses_requests' # node_statuses_requests =>
            svg_sets = node_statuses_requests]_vars
    /\ [](CleanCompletion =>
            /\ svg = Some(Svg(Unwrap(dot)))
            /\ svg_sets = node_statuses_requests
            /\ dot = Some(BuildDot(Unwrap(graph), Unwrap(statuses)).dot)
            /\ AllTerminal(Unwrap(graph).nodes, Unwrap(statuses)))
    /\ [][rpc_state = "Disconnected" => svg' = svg]_vars
    /\ ((pc = "rpc_disconnector" /\ failure = Nothing) ~>
            (rpc_state = "Disconnected" /\ dot # None /\ svg = Some(Svg(Unwrap(dot)))))

\* C19 witness: the loop ended by completion in its second cycle; two images
\* were set and the one of the final snapshot is displayed at Disconnected.
C19_Witness ==
    /\ rpc_state = "Disconnected"
    /\ failure = Nothing
    /\ svg_sets = 2
    /\ Unwrap(graph).nodes = <<"A", "B">>
    /\ svg = Some(Svg(Unwrap(dot)))

\* The first edge of the topology names a tail or a head without an entry in
\* the snapshot.
MissingSide ==
    /\ statuses # None
    /\ Unwrap(graph).edges # <<>>
    /\ \/ Unwrap(graph).edges[1].tail_name \notin DOMAIN Unwrap(statuses)
       \/ Unwrap(graph).edges[1].head_name \notin DOMAIN Unwrap(statuses)

\* Nothing but a missing entry can stop the cycle: the state of every node
\* entry decodes and the counter lists of the edge's endpoints that have an
\* entry reach the edge's ports.
OtherwiseSound ==
    LET edge == Unwrap(graph).edges[1]
        map == Unwrap(statuses)
    IN  /\ \A n \in DOMAIN map : map[n].state \in States
        /\ edge.tail_name \in DOMAIN map =>
               edge.tail_index < Len(map[edge.tail_name].output_written)
        /\ edge.head_name \in DOMAIN map =>
               edge.head_index < Len(map[edge.head_name].input_read)

\* The missing endpoints of the edge are not nodes of the topology.
MissingSideOutsideNodes ==
    \A n \in {Unwrap(graph).edges[1].tail_name, Unwrap(graph).edges[1].head_name} :
        n \in DOMAIN Unwrap(statuses)
        \/ \A i \in DOMAIN Unwrap(graph).nodes : Unwrap(graph).nodes[i] # n

\* The edge is emitted without the label of a missing side, without a
\* difference and without a colour.
EdgeWithoutMissingSide ==
    LET lines == EdgePart(Unwrap(graph), Unwrap(dot))
        edge == Unwrap(graph).edges[1]
        open == node_name_to_dot_id(edge.tail_name) \o " -> "
                \o node_name_to_dot_id(edge.head_name) \o " ["
    IN  /\ lines[1] \in {open, open \o "]"}
        /\ \A c \in Colours : ~Emits(lines, "color", c)
        /\ \A l \in Labels :
               /\ Emits(lines, "taillabel", l) <=>
                      TailCounter # None /\ l = ToString(Unwrap(TailCounter))
               /\ Emits(lines, "headlabel", l) <=>
                      HeadCounter # None /\ l = ToString(Unwrap(HeadCounter))

====
